---- MODULE Spec2Model ----
(***************************************************************************)
(* File archiver service: task package (Task, Process, isAllowedExtension) *)
(* and handlers package (TaskManager and its HTTP handlers).               *)
(*                                                                         *)
(* Every HTTP request runs on its own goroutine (a handler slot below);    *)
(* every processing pass is a goroutine launched by AddFileHandler.  A     *)
(* critical section of a sync.Mutex that contains no blocking call is one  *)
(* atomic step; reads made outside any lock are steps of their own, so     *)
(* that they interleave with the writers they race with.                   *)
(***************************************************************************)
EXTENDS Integers, Sequences, FiniteSets, TLC

\* ---- bounds of the model ------------------------------------------------
NumHandlers == 2          \* request goroutines that can be in flight at once
MaxTasks    == 2          \* identifiers uuid.New can hand out in a run
MaxAppends  == 3          \* accepted append-file requests in a run
MaxDriven   == 4          \* the same, in the runs that study progress
MaxFaults   == 1          \* fetches and archive writes that fail in a run
MaxWide     == 3          \* accepted append-file requests with room for two passes
MaxLocked   == 3          \* the same, in the runs that follow the locks

\* ---- configuration (config.Config, read once at startup) ---------------
MaxFilesPerTask    == 2
MaxConcurrentTasks == 1
AllowedExtensions  == {".png"}

Handlers == 1..NumHandlers
TaskIds  == 1..MaxTasks

\* ---- Status constants ---------------------------------------------------
StatusCreated    == "created"
StatusProcessing == "processing"
StatusDone       == "done"
StatusError      == "error"

\* ---- URLs ----------------------------------------------------------------
\* A URL is what url.Parse and filepath see of it: the last path segment,
\* the extension of the path, and the extensions of the query values.
URLs ==
  { [base |-> "a.PNG", pathExt |-> ".PNG", queryExts |-> {}],
    [base |-> "b.exe", pathExt |-> ".exe", queryExts |-> {}] }
NoURL   == [base |-> "", pathExt |-> "", queryExts |-> {}]
\* request bodies: JSON that decodes to a url, or something that does not decode
Bodies == {[valid |-> TRUE, url |-> u] : u \in URLs}
            \cup {[valid |-> FALSE, url |-> NoURL]}

\* strings.ToLower on the extensions that occur
ToLower(s) ==
  CASE s = ".PNG" -> ".png"
    [] s = ".EXE" -> ".exe"
    [] OTHER      -> s

\* The extension isAllowedExtension may end up comparing: the path's, or,
\* when the path has none, the first non-empty one met while ranging over
\* the query map (Go leaves the iteration order of a map unspecified).
CandidateExts(u) ==
  IF ToLower(u.pathExt) # "" THEN {ToLower(u.pathExt)}
  ELSE LET qs == {ToLower(e) : e \in u.queryExts} \ {""}
       IN  IF qs = {} THEN {""} ELSE qs

isAllowedExtension(ext, allowedExtensions) == ext \in allowedExtensions

\* ---- error texts ----------------------------------------------------------
\* A text is a sequence of pieces, each piece a tuple of strings: a message is
\* one piece (its wording and the URL it names), the separator another.
Sep == <<"; ">>
CreateZipFailed == << <<"failed to create zip file">> >>
MsgNotAllowed(u)  == <<"file extension not allowed", u.base>>
MsgGetError(u)    == <<"failed to download file, error", u.base>>
MsgBadStatus(u)   == <<"failed to download file, status", u.base>>
MsgEntryError(u)  == <<"failed to create zip entry", u.base>>
MsgCopyError(u)   == <<"failed to write to zip entry", u.base>>

\* strings.Join(errors, "; "): the messages with the separator between them
RECURSIVE Join(_)
Join(errors) ==
  IF Len(errors) = 0 THEN <<>>
  ELSE IF Len(errors) = 1 THEN <<errors[1]>>
  ELSE <<errors[1], Sep>> \o Join(Tail(errors))

\* number of messages in a joined text
MessagesIn(details) == Cardinality({i \in 1..Len(details) : details[i] # Sep})

ResultLocator(id) == <<"/archives/", id, ".zip">>

VARIABLES
  Tasks,       \* TaskManager.Tasks: identifier -> Task
  sema,        \* len(tm.concurrentTaskSema)
  handlers,    \* request goroutines
  passes,      \* processing goroutines, in launch order
  faults,      \* failures the network and the disk have produced so far
  response,    \* the HTTP response written last: status code, and the
               \* identifier in the body of a 201
  config,      \* TaskManager.config, as loaded at startup
  mutex        \* who holds TaskManager.mutex and each Task.mutex

vars == <<Tasks, sema, handlers, passes, faults, response, config, mutex>>

\* the goroutines that take locks; NoUnit marks a free mutex
NoUnit == <<>>
HandlerUnit(h) == <<"handler", h>>
PassUnit(p) == <<"pass", p>>

Unlocked == [tm |-> NoUnit, t |-> [id \in TaskIds |-> NoUnit]]

IdleHandler == [pc |-> "idle", id |-> 0, url |-> NoURL]

NoResponse == [code |-> 0, id |-> 0]

NewTask == [Status |-> StatusCreated, FileURLs |-> <<>>,
            ResultURL |-> <<>>, ErrorDetails |-> <<>>]

NewTaskManager == [Tasks |-> <<>>, sema |-> 0]

\* everything but the configuration
InitManager ==
  /\ Tasks = NewTaskManager.Tasks
  /\ sema = NewTaskManager.sema
  /\ handlers = [h \in Handlers |-> IdleHandler]
  /\ passes = <<>>
  /\ faults = 0
  /\ response = NoResponse
  /\ mutex = Unlocked

Init ==
  /\ InitManager
  /\ config = [MaxConcurrentTasks |-> MaxConcurrentTasks]

Registered == DOMAIN Tasks

RECURSIVE SumFiles(_)
SumFiles(S) ==
  IF S = {} THEN 0
  ELSE LET t == CHOOSE x \in S : TRUE
       IN  Len(Tasks[t].FileURLs) + SumFiles(S \ {t})

\* accepted appends so far: recorded ones plus those between lookup and AddFile
Appended ==
  SumFiles(Registered) + Cardinality({h \in Handlers : handlers[h].pc = "addfile"})

\* the handler writes its response and its goroutine ends
Respond(h, code, id) ==
  /\ handlers' = [handlers EXCEPT ![h] = IdleHandler]
  /\ response' = [code |-> code, id |-> id]

\* ---- CreateTaskHandler ----------------------------------------------------
\* mutant: the occupancy test is off by one
ServerBusyAbove(n) == n > config.MaxConcurrentTasks

\* the occupancy test that answers 503
ServerBusy(n) == n >= config.MaxConcurrentTasks

\* len(tm.concurrentTaskSema) is read; busy answers 503 and registers nothing
CreateTaskHandler_Check(h) ==
  /\ handlers[h].pc = "idle"
  /\ Cardinality(Registered)
        + Cardinality({g \in Handlers : handlers[g].pc = "register"}) < MaxTasks
  /\ IF ServerBusy(sema)
       THEN Respond(h, 503, 0)
       ELSE /\ handlers' = [handlers EXCEPT ![h].pc = "register"]
            /\ UNCHANGED response
  /\ UNCHANGED <<Tasks, sema, passes, faults, config, mutex>>

\* uuid.New(): an identifier no task has had
NewID == CHOOSE id \in TaskIds \ Registered :
           \A other \in TaskIds \ Registered : id <= other

\* task.NewTask(), inserted under tm.mutex; 201 with the task
CreateTaskHandler_Register(h) ==
  /\ handlers[h].pc = "register"
  /\ Tasks' = [i \in Registered \cup {NewID} |->
                 IF i = NewID THEN NewTask ELSE Tasks[i]]
  /\ Respond(h, 201, NewID)
  /\ UNCHANGED <<sema, passes, faults, config, mutex>>

\* ---- AddFileHandler ---------------------------------------------------------
\* mutant: the decoding error is dropped and the request goes on with the
\* zero value of the body
AddFileHandler_LookupIgnoresDecodeError(h, id, body) ==
  /\ handlers[h].pc = "idle"
  /\ IF id \notin Registered
       THEN Respond(h, 404, 0)
       ELSE /\ handlers' = [handlers EXCEPT ![h] =
                 [pc |-> "addfile", id |-> id, url |-> body.url]]
            /\ UNCHANGED response
  /\ UNCHANGED <<Tasks, sema, passes, faults, config, mutex>>

\* lookup under tm.mutex, then the body is decoded
AddFileHandler_Lookup(h, id, body) ==
  /\ handlers[h].pc = "idle"
  /\ IF id \notin Registered
       THEN Respond(h, 404, 0)
       ELSE IF ~body.valid
       THEN Respond(h, 400, 0)
       ELSE /\ handlers' = [handlers EXCEPT ![h] =
                 [pc |-> "addfile", id |-> id, url |-> body.url]]
            /\ UNCHANGED response
  /\ UNCHANGED <<Tasks, sema, passes, faults, config, mutex>>

\* mutant: an append that does not take the task's mutex and writes into the
\* slot a concurrent append has just filled
AddFileOverwrites(t, url) ==
  Tasks' = [Tasks EXCEPT ![t].FileURLs =
              IF Len(@) = 0 THEN <<url>> ELSE [@ EXCEPT ![Len(@)] = url]]

\* Task.AddFile: append under the task's mutex
AddFile(t, url) ==
  Tasks' = [Tasks EXCEPT ![t].FileURLs = Append(@, url)]

AddFileHandler_AddFile(h) ==
  /\ handlers[h].pc = "addfile"
  /\ AddFile(handlers[h].id, handlers[h].url)
  /\ handlers' = [handlers EXCEPT ![h].pc = "check"]
  /\ UNCHANGED <<sema, passes, faults, response, config, mutex>>

\* mutant: the threshold is met one file early
ReachedMaxFilesEarly(n) == n >= MaxFilesPerTask - 1

\* the test that decides whether this request starts a processing pass
ReachedMaxFiles(n) == n >= MaxFilesPerTask

\* len(t.FileURLs) is read without the task's mutex
AddFileHandler_Check(h) ==
  /\ handlers[h].pc = "check"
  /\ IF ReachedMaxFiles(Len(Tasks[handlers[h].id].FileURLs))
       THEN /\ handlers' = [handlers EXCEPT ![h].pc = "setresult"]
            /\ UNCHANGED response
       ELSE Respond(h, 202, 0)
  /\ UNCHANGED <<Tasks, sema, passes, faults, config, mutex>>

\* t.SetResultURL(): called by AddFileHandler, defined nowhere in the sources.
\* The specification gives append-file no effect on a task besides the
\* append, and has the result locator set at the end of a pass, once the
\* archive is there (sections 3 and 4.3): the call leaves the task as it is.
SetResultURL(t) == UNCHANGED Tasks

AddFileHandler_SetResultURL(h) ==
  /\ handlers[h].pc = "setresult"
  /\ SetResultURL(handlers[h].id)
  /\ handlers' = [handlers EXCEPT ![h].pc = "reserve"]
  /\ UNCHANGED <<sema, passes, faults, response, config, mutex>>

\* mutant: a send that never finds the buffer full
SemaUnbounded(n) == TRUE

\* a send on the buffered channel proceeds only while the buffer has room
SemaHasRoom(n) == n < config.MaxConcurrentTasks

NewPass(t) == [task |-> t, pc |-> "begin", urls |-> <<>>, i |-> 1,
               errors |-> <<>>, entries |-> <<>>, fatal |-> FALSE]

\* mutant: a non-blocking reservation that answers busy when the gate is full
AddFileHandler_TryReserve(h) ==
  /\ handlers[h].pc = "reserve"
  /\ IF sema < config.MaxConcurrentTasks
       THEN /\ sema' = sema + 1
            /\ passes' = Append(passes, NewPass(handlers[h].id))
            /\ Respond(h, 202, 0)
       ELSE /\ Respond(h, 503, 0)
            /\ UNCHANGED <<sema, passes>>
  /\ UNCHANGED <<Tasks, faults, config, mutex>>

\* tm.concurrentTaskSema <- struct{}{}, then go func() {...}(), then 202
AddFileHandler_Reserve(h) ==
  /\ handlers[h].pc = "reserve"
  /\ SemaHasRoom(sema)
  /\ sema' = sema + 1
  /\ passes' = Append(passes, NewPass(handlers[h].id))
  /\ Respond(h, 202, 0)
  /\ UNCHANGED <<Tasks, faults, config, mutex>>

\* ---- GetTaskStatusHandler --------------------------------------------------
\* mutant: the snapshot waits for the task's pass, as if Process kept the
\* task's mutex from its first line to its last
GetTaskStatusHandler_Locked(h, id) ==
  /\ handlers[h].pc = "idle"
  /\ \A p \in DOMAIN passes :
       passes[p].task = id => passes[p].pc \in {"release", "finished"}
  /\ Respond(h, IF id \in Registered THEN 200 ELSE 404, 0)
  /\ UNCHANGED <<Tasks, sema, passes, faults, config, mutex>>

\* lookup under tm.mutex, then the task is encoded into the response
GetTaskStatusHandler(h, id) ==
  /\ handlers[h].pc = "idle"
  /\ Respond(h, IF id \in Registered THEN 200 ELSE 404, 0)
  /\ UNCHANGED <<Tasks, sema, passes, faults, config, mutex>>

\* ---- Task.Process, one goroutine per pass -----------------------------------
PassIds == DOMAIN passes
TaskOf(p) == passes[p].task

\* mutant: the release is not deferred, the early return of a failed creation
\* skips it
ReturnedWithoutDefer(ps, fatal) ==
  [NewPass(ps.task) EXCEPT !.pc = IF fatal THEN "finished" ELSE "release",
                           !.fatal = fatal]

\* Process returns: its locals are gone, the deferred release is left to run
Returned(ps, fatal) == [NewPass(ps.task) EXCEPT !.pc = "release", !.fatal = fatal]

\* t.Status = StatusProcessing, under the task's mutex
Process_Begin(p) ==
  /\ passes[p].pc = "begin"
  /\ Tasks' = [Tasks EXCEPT ![TaskOf(p)].Status = StatusProcessing]
  /\ passes' = [passes EXCEPT ![p].pc = "create"]
  /\ UNCHANGED <<sema, handlers, faults, response, config, mutex>>

\* mutant: the status is set, the details are forgotten
setErrorStatusOnly(t, errStr) ==
  Tasks' = [Tasks EXCEPT ![t].Status = StatusError]

\* Task.setError: status and details under the task's mutex
setError(t, errStr) ==
  Tasks' = [Tasks EXCEPT ![t].Status = StatusError, ![t].ErrorDetails = errStr]

\* os.Create fails: setError and return (the deferred release follows)
Process_CreateFails(p) ==
  /\ passes[p].pc = "create"
  /\ faults < MaxFaults
  /\ faults' = faults + 1
  /\ setError(TaskOf(p), CreateZipFailed)
  /\ passes' = [passes EXCEPT ![p] = Returned(passes[p], TRUE)]
  /\ UNCHANGED <<sema, handlers, response, config, mutex>>

\* os.Create succeeds; the range statement reads t.FileURLs once, unlocked
Process_CreateOk(p) ==
  /\ passes[p].pc = "create"
  /\ passes' = [passes EXCEPT ![p].urls = Tasks[TaskOf(p)].FileURLs,
                              ![p].pc = IF Len(Tasks[TaskOf(p)].FileURLs) = 0
                                        THEN "finish" ELSE "filter"]
  /\ UNCHANGED <<Tasks, sema, handlers, faults, response, config, mutex>>

\* where the loop goes after the URL at position i
AfterFile(ps) == IF ps.i >= Len(ps.urls) THEN "finish" ELSE "filter"

NextFile(ps) == [ps EXCEPT !.i = ps.i + 1, !.pc = AfterFile(ps)]

\* the extension filter on the next URL; a rejected URL is skipped with a
\* message, an accepted one goes to http.Get
Process_Filter(p) ==
  /\ passes[p].pc = "filter"
  /\ LET ps == passes[p]
         u  == ps.urls[ps.i]
     IN  \E ext \in CandidateExts(u) :
           IF isAllowedExtension(ext, AllowedExtensions)
           THEN passes' = [passes EXCEPT ![p].pc = "fetching"]
           ELSE passes' = [passes EXCEPT ![p] =
                  NextFile([ps EXCEPT !.errors = Append(@, MsgNotAllowed(u))])]
  /\ UNCHANGED <<Tasks, sema, handlers, faults, response, config, mutex>>

Outcomes == {"ok", "get-error", "bad-status", "entry-error", "copy-error"}

\* mutant: a failed stream takes its entry out of the archive again
FetchedRollsBack(ps, outcome) ==
  LET u == ps.urls[ps.i]
  IN  IF outcome = "ok"
      THEN [ps EXCEPT !.entries = Append(@, u.base)]
      ELSE [ps EXCEPT !.errors = Append(@,
              CASE outcome = "get-error"   -> MsgGetError(u)
                [] outcome = "bad-status"  -> MsgBadStatus(u)
                [] outcome = "entry-error" -> MsgEntryError(u)
                [] OTHER                   -> MsgCopyError(u))]

\* what one URL leaves behind once http.Get has returned
Fetched(ps, outcome) ==
  LET u == ps.urls[ps.i]
  IN  CASE outcome = "get-error" ->
             [ps EXCEPT !.errors = Append(@, MsgGetError(u))]
        [] outcome = "bad-status" ->
             [ps EXCEPT !.errors = Append(@, MsgBadStatus(u))]
        [] outcome = "entry-error" ->
             [ps EXCEPT !.errors = Append(@, MsgEntryError(u))]
        [] outcome = "copy-error" ->
             [ps EXCEPT !.entries = Append(@, u.base),
                        !.errors = Append(@, MsgCopyError(u))]
        [] OTHER ->
             [ps EXCEPT !.entries = Append(@, u.base)]

\* http.Get returns; status test, zipWriter.Create, io.Copy
Process_Fetch(p, outcome) ==
  /\ passes[p].pc = "fetching"
  /\ outcome # "ok" => faults < MaxFaults
  /\ faults' = IF outcome = "ok" THEN faults ELSE faults + 1
  /\ passes' = [passes EXCEPT ![p] = NextFile(Fetched(passes[p], outcome))]
  /\ UNCHANGED <<Tasks, sema, handlers, response, config, mutex>>

\* mutant: the pass empties the list of the URLs it has archived
FinishClearsFiles(task, id, errors) ==
  [task EXCEPT !.ErrorDetails = IF Len(errors) > 0 THEN Join(errors) ELSE @,
               !.Status = StatusDone,
               !.ResultURL = ResultLocator(id),
               !.FileURLs = <<>>]

\* the locked tail of Process
Finish(task, id, errors) ==
  [task EXCEPT !.ErrorDetails = IF Len(errors) > 0 THEN Join(errors) ELSE @,
               !.Status = StatusDone,
               !.ResultURL = ResultLocator(id)]

Process_Finish(p) ==
  /\ passes[p].pc = "finish"
  /\ Tasks' = [Tasks EXCEPT ![TaskOf(p)] = Finish(@, TaskOf(p), passes[p].errors)]
  /\ passes' = [passes EXCEPT ![p] = Returned(passes[p], FALSE)]
  /\ UNCHANGED <<sema, handlers, faults, response, config, mutex>>

\* mutant: the deferred receive drains a slot too many
ReleaseTwo(n) == n - 2

\* mutant: the slot is never given back
ReleaseNone(n) == n

\* the deferred receive from the channel
Release(n) == n - 1

Process_Release(p) ==
  /\ passes[p].pc = "release"
  /\ sema' = Release(sema)
  /\ passes' = [passes EXCEPT ![p] = [NewPass(TaskOf(p)) EXCEPT !.pc = "finished"]]
  /\ UNCHANGED <<Tasks, handlers, faults, response, config, mutex>>

\* ---- the system ----------------------------------------------------------------
Next ==
  \/ \E h \in Handlers : CreateTaskHandler_Check(h)
  \/ \E h \in Handlers : CreateTaskHandler_Register(h)
  \/ \E h \in Handlers, id \in TaskIds, body \in Bodies :
        /\ (id \in Registered /\ body.valid) => Appended < MaxAppends
        /\ AddFileHandler_Lookup(h, id, body)
  \/ \E h \in Handlers : AddFileHandler_AddFile(h)
  \/ \E h \in Handlers : AddFileHandler_Check(h)
  \/ \E h \in Handlers : AddFileHandler_SetResultURL(h)
  \/ \E h \in Handlers : AddFileHandler_Reserve(h)
  \/ \E h \in Handlers, id \in TaskIds : GetTaskStatusHandler(h, id)
  \/ \E p \in PassIds : Process_Begin(p)
  \/ \E p \in PassIds : Process_CreateFails(p)
  \/ \E p \in PassIds : Process_CreateOk(p)
  \/ \E p \in PassIds : Process_Filter(p)
  \/ \E p \in PassIds, o \in Outcomes : Process_Fetch(p, o)
  \/ \E p \in PassIds : Process_Finish(p)
  \/ \E p \in PassIds : Process_Release(p)

Spec == Init /\ [][Next]_vars

\* ---- scheduling -------------------------------------------------------------
\* The Go scheduler runs every runnable goroutine; a goroutine parked on the
\* channel send is queued first come, first served, so it gets the slot once
\* slots keep being released.  Requests arrive only if clients send them, and
\* every http.Get is assumed to return.
HandlerStep(h) ==
  \/ CreateTaskHandler_Register(h)
  \/ AddFileHandler_AddFile(h)
  \/ AddFileHandler_Check(h)
  \/ AddFileHandler_SetResultURL(h)

PassStep(p) ==
  /\ p \in PassIds
  /\ \/ Process_Begin(p)
     \/ Process_CreateFails(p)
     \/ Process_CreateOk(p)
     \/ Process_Filter(p)
     \/ \E o \in Outcomes : Process_Fetch(p, o)
     \/ Process_Finish(p)
     \/ Process_Release(p)

Fairness ==
  /\ \A h \in Handlers : WF_vars(HandlerStep(h))
  /\ \A h \in Handlers : SF_vars(AddFileHandler_Reserve(h))
  /\ \A p \in 1..MaxDriven : WF_vars(PassStep(p))

\* The gate under load, and progress, are studied for well-behaved clients:
\* they create tasks, append files to tasks that exist and poll them, and they
\* send URLs the filter lets through, so that every URL goes to the network.
\* This leaves room for one append more than Next has.
DrivenURLs == {u \in URLs : isAllowedExtension(ToLower(u.pathExt), AllowedExtensions)}

NextDriven ==
  \/ \E h \in Handlers : CreateTaskHandler_Check(h)
  \/ \E h \in Handlers, id \in Registered, u \in DrivenURLs :
        /\ Appended < MaxDriven
        /\ AddFileHandler_Lookup(h, id, [valid |-> TRUE, url |-> u])
  \/ \E h \in Handlers, id \in Registered : GetTaskStatusHandler(h, id)
  \/ \E h \in Handlers : HandlerStep(h)
  \/ \E h \in Handlers : AddFileHandler_Reserve(h)
  \/ \E p \in PassIds : PassStep(p)

LoadSpec == Init /\ [][NextDriven]_vars

FairSpec == LoadSpec /\ Fairness

\* The same service configured with room for two passes, and clients that
\* send MaxWide URLs in all.
WideConcurrentTasks == 2

InitWide ==
  /\ InitManager
  /\ config = [MaxConcurrentTasks |-> WideConcurrentTasks]

NextWide ==
  \/ \E h \in Handlers : CreateTaskHandler_Check(h)
  \/ \E h \in Handlers, id \in Registered, u \in DrivenURLs :
        /\ Appended < MaxWide
        /\ AddFileHandler_Lookup(h, id, [valid |-> TRUE, url |-> u])
  \/ \E h \in Handlers, id \in Registered : GetTaskStatusHandler(h, id)
  \/ \E h \in Handlers : HandlerStep(h)
  \/ \E h \in Handlers : AddFileHandler_Reserve(h)
  \/ \E p \in PassIds : PassStep(p)

WideSpec == InitWide /\ [][NextWide]_vars

\* ---- the same code, one step per Lock and per Unlock ----------------------
\* Every critical section is entered by a step that takes the mutex, which is
\* enabled only while the mutex is free, and does what the code does before
\* the Unlock; the Unlock is a step of its own.  The code between critical
\* sections is modelled by the actions above.
StoreFree == mutex.tm = NoUnit
TaskFree(t) == mutex.t[t] = NoUnit

LockStore(h) == mutex' = [mutex EXCEPT !.tm = HandlerUnit(h)]
UnlockStore == mutex' = [mutex EXCEPT !.tm = NoUnit]
LockTask(t, u) == mutex' = [mutex EXCEPT !.t[t] = u]
UnlockTask(t) == mutex' = [mutex EXCEPT !.t[t] = NoUnit]

\* tm.mutex.Lock(); tm.Tasks[t.ID] = t
CreateTaskHandler_LockStore(h) ==
  /\ handlers[h].pc = "register"
  /\ StoreFree
  /\ LockStore(h)
  /\ Tasks' = [i \in Registered \cup {NewID} |->
                 IF i = NewID THEN NewTask ELSE Tasks[i]]
  /\ handlers' = [handlers EXCEPT ![h] = [pc |-> "inserted", id |-> NewID, url |-> NoURL]]
  /\ UNCHANGED <<sema, passes, faults, response, config>>

\* tm.mutex.Unlock(); 201 with the task
CreateTaskHandler_UnlockStore(h) ==
  /\ handlers[h].pc = "inserted"
  /\ UnlockStore
  /\ Respond(h, 201, handlers[h].id)
  /\ UNCHANGED <<Tasks, sema, passes, faults, config>>

\* tm.mutex.Lock(); t, ok := tm.Tasks[taskID]
AddFileHandler_LockStore(h, id, body) ==
  /\ handlers[h].pc = "idle"
  /\ StoreFree
  /\ LockStore(h)
  /\ handlers' = [handlers EXCEPT ![h] =
        [pc |-> "looked", id |-> IF id \in Registered THEN id ELSE 0, url |-> body.url]]
  /\ UNCHANGED <<Tasks, sema, passes, faults, response, config>>

\* mutant: the Unlock sits in the branch that answers 404 only
AddFileHandler_UnlockStoreOnNotFound(h) ==
  /\ handlers[h].pc = "looked"
  /\ IF handlers[h].id = 0
       THEN UnlockStore /\ Respond(h, 404, 0)
       ELSE /\ UNCHANGED mutex
            /\ handlers' = [handlers EXCEPT ![h].pc = "addfile"]
            /\ UNCHANGED response
  /\ UNCHANGED <<Tasks, sema, passes, faults, config>>

\* tm.mutex.Unlock(); 404 when the lookup found nothing; the body is decoded
AddFileHandler_UnlockStore(h) ==
  /\ handlers[h].pc = "looked"
  /\ UnlockStore
  /\ IF handlers[h].id = 0
       THEN Respond(h, 404, 0)
       ELSE /\ handlers' = [handlers EXCEPT ![h].pc = "addfile"]
            /\ UNCHANGED response
  /\ UNCHANGED <<Tasks, sema, passes, faults, config>>

\* Task.AddFile: t.mutex.Lock(); append
AddFile_Lock(h) ==
  /\ handlers[h].pc = "addfile"
  /\ TaskFree(handlers[h].id)
  /\ LockTask(handlers[h].id, HandlerUnit(h))
  /\ AddFile(handlers[h].id, handlers[h].url)
  /\ handlers' = [handlers EXCEPT ![h].pc = "appended"]
  /\ UNCHANGED <<sema, passes, faults, response, config>>

\* Task.AddFile: the deferred t.mutex.Unlock()
AddFile_Unlock(h) ==
  /\ handlers[h].pc = "appended"
  /\ UnlockTask(handlers[h].id)
  /\ handlers' = [handlers EXCEPT ![h].pc = "check"]
  /\ UNCHANGED <<Tasks, sema, passes, faults, response, config>>

\* tm.mutex.Lock(); t, ok := tm.Tasks[taskID]
GetTaskStatusHandler_LockStore(h, id) ==
  /\ handlers[h].pc = "idle"
  /\ StoreFree
  /\ LockStore(h)
  /\ handlers' = [handlers EXCEPT ![h] =
        [pc |-> "status", id |-> IF id \in Registered THEN id ELSE 0, url |-> NoURL]]
  /\ UNCHANGED <<Tasks, sema, passes, faults, response, config>>

\* tm.mutex.Unlock(); 404 when the lookup found nothing
GetTaskStatusHandler_UnlockStore(h) ==
  /\ handlers[h].pc = "status"
  /\ UnlockStore
  /\ IF handlers[h].id = 0
       THEN Respond(h, 404, 0)
       ELSE /\ handlers' = [handlers EXCEPT ![h].pc = "encode"]
            /\ UNCHANGED response
  /\ UNCHANGED <<Tasks, sema, passes, faults, config>>

\* json.NewEncoder(w).Encode(t): the task's fields are read, no mutex taken
GetTaskStatusHandler_Encode(h) ==
  /\ handlers[h].pc = "encode"
  /\ Respond(h, 200, 0)
  /\ UNCHANGED <<Tasks, sema, passes, faults, config, mutex>>

\* Process: t.mutex.Lock(); t.Status = StatusProcessing
Process_LockBegin(p) ==
  /\ passes[p].pc = "begin"
  /\ TaskFree(TaskOf(p))
  /\ LockTask(TaskOf(p), PassUnit(p))
  /\ Tasks' = [Tasks EXCEPT ![TaskOf(p)].Status = StatusProcessing]
  /\ passes' = [passes EXCEPT ![p].pc = "begun"]
  /\ UNCHANGED <<sema, handlers, faults, response, config>>

\* Process: t.mutex.Unlock()
Process_UnlockBegin(p) ==
  /\ passes[p].pc = "begun"
  /\ UnlockTask(TaskOf(p))
  /\ passes' = [passes EXCEPT ![p].pc = "create"]
  /\ UNCHANGED <<Tasks, sema, handlers, faults, response, config>>

\* os.Create fails; setError: t.mutex.Lock(), status and details
setError_Lock(p) ==
  /\ passes[p].pc = "create"
  /\ faults < MaxFaults
  /\ faults' = faults + 1
  /\ TaskFree(TaskOf(p))
  /\ LockTask(TaskOf(p), PassUnit(p))
  /\ setError(TaskOf(p), CreateZipFailed)
  /\ passes' = [passes EXCEPT ![p].pc = "errored"]
  /\ UNCHANGED <<sema, handlers, response, config>>

\* setError: the deferred t.mutex.Unlock(); Process returns
setError_Unlock(p) ==
  /\ passes[p].pc = "errored"
  /\ UnlockTask(TaskOf(p))
  /\ passes' = [passes EXCEPT ![p] = Returned(passes[p], TRUE)]
  /\ UNCHANGED <<Tasks, sema, handlers, faults, response, config>>

\* Process: t.mutex.Lock() and the locked tail
Process_LockFinish(p) ==
  /\ passes[p].pc = "finish"
  /\ TaskFree(TaskOf(p))
  /\ LockTask(TaskOf(p), PassUnit(p))
  /\ Tasks' = [Tasks EXCEPT ![TaskOf(p)] = Finish(@, TaskOf(p), passes[p].errors)]
  /\ passes' = [passes EXCEPT ![p] = [NewPass(TaskOf(p)) EXCEPT !.pc = "ended"]]
  /\ UNCHANGED <<sema, handlers, faults, response, config>>

\* Process: the deferred t.mutex.Unlock(); Process returns
Process_UnlockFinish(p) ==
  /\ passes[p].pc = "ended"
  /\ UnlockTask(TaskOf(p))
  /\ passes' = [passes EXCEPT ![p] = Returned(passes[p], FALSE)]
  /\ UNCHANGED <<Tasks, sema, handlers, faults, response, config>>

\* accepted appends so far, the requests between lookup and append included
LockAppended ==
  SumFiles(Registered)
    + Cardinality({h \in Handlers :
         \/ handlers[h].pc = "addfile"
         \/ handlers[h].pc = "looked" /\ handlers[h].id # 0})

\* the steps of a request that need no input
LockHandlerStep(h) ==
  \/ CreateTaskHandler_LockStore(h)
  \/ CreateTaskHandler_UnlockStore(h)
  \/ AddFileHandler_UnlockStore(h)
  \/ AddFile_Lock(h)
  \/ AddFile_Unlock(h)
  \/ AddFileHandler_Check(h)
  \/ AddFileHandler_SetResultURL(h)
  \/ AddFileHandler_Reserve(h)
  \/ GetTaskStatusHandler_UnlockStore(h)
  \/ GetTaskStatusHandler_Encode(h)

LockPassStep(p) ==
  \/ Process_LockBegin(p)
  \/ Process_UnlockBegin(p)
  \/ setError_Lock(p)
  \/ setError_Unlock(p)
  \/ Process_CreateOk(p)
  \/ Process_Filter(p)
  \/ \E o \in Outcomes : Process_Fetch(p, o)
  \/ Process_LockFinish(p)
  \/ Process_UnlockFinish(p)
  \/ Process_Release(p)

\* clients send decodable bodies with URLs the filter lets through, for any
\* identifier, MaxLocked of them to tasks that exist
NextLocked ==
  \/ \E h \in Handlers : CreateTaskHandler_Check(h)
  \/ \E h \in Handlers, id \in TaskIds, u \in DrivenURLs :
        /\ id \in Registered => LockAppended < MaxLocked
        /\ AddFileHandler_LockStore(h, id, [valid |-> TRUE, url |-> u])
  \/ \E h \in Handlers, id \in TaskIds : GetTaskStatusHandler_LockStore(h, id)
  \/ \E h \in Handlers : LockHandlerStep(h)
  \/ \E p \in PassIds : LockPassStep(p)

LockSpec == Init /\ [][NextLocked]_vars

\* ---- properties -------------------------------------------------------------
PassesOf(t) == {p \in PassIds : TaskOf(p) = t}

\* passes that hold a slot: launched, deferred release not yet run
Unfinished == {p \in PassIds : passes[p].pc # "finished"}

\* passes inside Task.Process
Running == {p \in PassIds : passes[p].pc \notin {"release", "finished"}}

GateFull == sema >= MaxConcurrentTasks

Waiting(h) == handlers[h].pc = "reserve" /\ GateFull

\* request h is past Task.AddFile and not yet answered
PastAppend(h) == handlers[h].pc \in {"check", "setresult", "reserve"}

Stepped(p) == passes'[p] # passes[p]

CopyFailures(errors) ==
  Cardinality({i \in 1..Len(errors) : errors[i][1] = "failed to write to zip entry"})

StatusSteps ==
  { <<StatusCreated, StatusProcessing>>,
    <<StatusProcessing, StatusDone>>,
    <<StatusProcessing, StatusError>> }

\* C1: the only status changes that ever occur are Created -> Processing,
\* Processing -> Done and Processing -> Error; a status never goes back, never
\* skips Processing and never changes once it is Done or Error.
C1_StatusOnlyMovesForward ==
  [][\A t \in Registered :
       Tasks'[t].Status # Tasks[t].Status
         => <<Tasks[t].Status, Tasks'[t].Status>> \in StatusSteps]_vars

\* C2: at most one processing pass is ever launched for a task, whatever
\* appends follow the one that started it.
C2_AtMostOnePassPerTask ==
  \A t \in TaskIds : Cardinality(PassesOf(t)) <= 1

\* C3: the passes that have started and not yet finished never number more
\* than MaxConcurrentTasks.
C3_ActivePassesBounded ==
  Cardinality(Unfinished) <= MaxConcurrentTasks

\* C3 under load: every slot is taken by a pass that is still at work and a
\* request for another task is held back at the gate.
C3_Witness ==
  /\ Cardinality(Running) = MaxConcurrentTasks
  /\ \E h \in Handlers :
        /\ Waiting(h)
        /\ \A p \in Running : TaskOf(p) # handlers[h].id

C6_CreateFailureIsFatal ==
  /\ [](\A p \in PassIds :
          /\ passes[p].pc = "create" =>
                passes[p].urls = <<>> /\ passes[p].entries = <<>>
          /\ passes[p].fatal =>
                passes[p].pc = "release" /\ ENABLED Process_Release(p))
  /\ [][\A p \in PassIds :
          /\ (passes[p].pc = "create" /\ Stepped(p) /\ faults' # faults) =>
                /\ Tasks'[TaskOf(p)].Status = StatusError
                /\ Tasks'[TaskOf(p)].ErrorDetails = CreateZipFailed
                /\ MessagesIn(Tasks'[TaskOf(p)].ErrorDetails) = 1
                /\ passes'[p].fatal
                /\ passes'[p].entries = <<>>
          /\ (passes[p].fatal /\ Stepped(p)) =>
                /\ passes'[p].pc = "finished"
                /\ sema' = sema - 1]_vars

\* C6: a pass has failed to create its archive and still holds its slot; the
\* task, which has its files, is in Error with the creation failure.
C6_Witness ==
  \E p \in PassIds :
    /\ passes[p].fatal
    /\ Len(Tasks[TaskOf(p)].FileURLs) >= MaxFilesPerTask
    /\ Tasks[TaskOf(p)].Status = StatusError
    /\ Tasks[TaskOf(p)].ErrorDetails = CreateZipFailed

C8_CreateNeverRefused ==
  response.code # 503

\* C8 as amended: create-task goes on to register a task exactly when the
\* occupancy it reads on entry is below MaxConcurrentTasks, and otherwise
\* answers 503 and registers nothing; once past that test it always registers
\* a task under an identifier no task has had, with status Created, no files,
\* no result and no details, changes no other task, and returns it with 201.
C8_CreateSucceedsBelowCapacity ==
  /\ [](\A h \in Handlers :
          handlers[h].pc = "register" => ENABLED CreateTaskHandler_Register(h))
  /\ [][/\ \A h \in Handlers :
             /\ (handlers[h].pc = "idle" /\ handlers'[h].pc = "register")
                   => sema < MaxConcurrentTasks /\ Tasks' = Tasks
             /\ (handlers[h].pc = "register" /\ handlers'[h] # handlers[h]) =>
                   \E id \in TaskIds \ Registered :
                     /\ DOMAIN Tasks' = Registered \cup {id}
                     /\ Tasks'[id] = [Status |-> StatusCreated, FileURLs |-> <<>>,
                                      ResultURL |-> <<>>, ErrorDetails |-> <<>>]
                     /\ \A other \in Registered : Tasks'[other] = Tasks[other]
                     /\ response' = [code |-> 201, id |-> id]
                     /\ handlers'[h].pc = "idle"
        /\ (response' # response /\ response'.code = 503) =>
             /\ sema >= MaxConcurrentTasks
             /\ Tasks' = Tasks
             /\ passes' = passes /\ sema' = sema
        /\ DOMAIN Tasks' # DOMAIN Tasks => response'.code = 201]_vars

\* C8: a second task has just been registered although every slot is taken:
\* the occupancy was read before the slot was.
C8_Witness ==
  /\ response = [code |-> 201, id |-> 2]
  /\ Cardinality(Registered) = 2
  /\ GateFull

Terminal(t) ==
  /\ t \in Registered
  /\ \/ Tasks[t].Status = StatusError
     \/ Tasks[t].Status = StatusDone /\ Tasks[t].ResultURL = ResultLocator(t)

\* C9: under fair scheduling, with every http.Get returning, a task whose
\* file count has reached the per-task maximum gets a processing pass and
\* reaches Done with its result locator set, or Error, with no further request.
C9_ThresholdLeadsToTerminal ==
  \A t \in TaskIds :
    (t \in Registered /\ Len(Tasks[t].FileURLs) >= MaxFilesPerTask)
       ~> (PassesOf(t) # {} /\ Terminal(t))

\* C9: two tasks have reached the maximum, one slot between them, and both
\* have been processed to the end.
C9_Witness ==
  \A t \in TaskIds :
    /\ t \in Registered
    /\ Len(Tasks[t].FileURLs) >= MaxFilesPerTask
    /\ PassesOf(t) # {}
    /\ Terminal(t)
    /\ \A p \in PassesOf(t) : passes[p].pc = "finished"

C11_AppendsKeepListsExact ==
  /\ [](\A h \in Handlers :
          handlers[h].pc = "addfile" =>
            handlers[h].id \in Registered /\ handlers[h].url \in URLs)
  /\ [][/\ \A t \in Registered :
             Tasks'[t].FileURLs # Tasks[t].FileURLs =>
               /\ \E h \in Handlers :
                    /\ handlers[h].pc = "addfile"
                    /\ handlers[h].id = t
                    /\ handlers'[h].pc = "check"
                    /\ Tasks'[t].FileURLs
                         = Append(Tasks[t].FileURLs, handlers[h].url)
               /\ \A o \in Registered \ {t} :
                    Tasks'[o].FileURLs = Tasks[o].FileURLs
        /\ \A h \in Handlers :
             (handlers[h].pc = "addfile" /\ handlers'[h] # handlers[h]) =>
               /\ handlers'[h].pc = "check"
               /\ Tasks'[handlers[h].id].FileURLs
                    = Append(Tasks[handlers[h].id].FileURLs, handlers[h].url)]_vars

\* C11: two requests have appended at the same time to different tasks; one
\* task holds two different URLs in the order they were appended, the other
\* holds the one URL sent to it.
C11_Witness ==
  \E h, g \in Handlers :
    LET t == handlers[h].id
        o == handlers[g].id
    IN  /\ handlers[h].pc = "check" /\ handlers[g].pc = "check"
        /\ t # o
        /\ Len(Tasks[t].FileURLs) = 2
        /\ Tasks[t].FileURLs[2] = handlers[h].url
        /\ Tasks[t].FileURLs[1] # handlers[h].url
        /\ Tasks[o].FileURLs = <<handlers[g].url>>

\* C12: the occupancy of the gate is at every moment the number of passes that
\* were reserved and have not run their release, so it is zero once every pass
\* has finished; the occupancy changes only by one slot taken together with
\* the launch of one pass, or by one slot given back by a pass that has left
\* Process, by its last line or by the return after a failed creation; a pass
\* that has given its slot back never acts again.
C12_SlotReleasedExactlyOnce ==
  /\ [](/\ sema = Cardinality(Unfinished)
        /\ Unfinished = {} => sema = 0)
  /\ [][/\ sema' # sema =>
             \/ /\ sema' = sema + 1
                /\ Len(passes') = Len(passes) + 1
                /\ \A p \in PassIds : ~Stepped(p)
             \/ /\ sema' = sema - 1
                /\ Len(passes') = Len(passes)
                /\ \E p \in PassIds :
                     /\ passes[p].pc = "release"
                     /\ passes'[p].pc = "finished"
                     /\ \A q \in PassIds \ {p} : ~Stepped(q)
        /\ \A p \in PassIds :
             /\ passes[p].pc = "finished" => ~Stepped(p)
             /\ (passes[p].pc \in {"create", "finish"}
                   /\ passes'[p].pc \notin {"filter", "finish"} /\ Stepped(p))
                  => passes'[p].pc = "release" /\ sema' = sema
             /\ (passes[p].pc = "release" /\ Stepped(p))
                  => passes'[p].pc = "finished" /\ sema' = sema - 1]_vars

\* C12: one pass has ended with Done and given its slot back; a later pass of
\* the same task has failed to create its archive and is about to give back
\* the slot it holds, the only one taken.
C12_Witness ==
  \E p, q \in PassIds :
    /\ passes[p].pc = "finished"
    /\ passes[q].pc = "release" /\ passes[q].fatal
    /\ Tasks[TaskOf(q)].Status = StatusError
    /\ Unfinished = {q}
    /\ sema = 1

\* what a refused request leaves alone: the store, the tasks, the gate and the
\* passes, and its handler is done
Refused(h) ==
  /\ Tasks' = Tasks
  /\ sema' = sema
  /\ passes' = passes
  /\ handlers'[h] = IdleHandler

\* C13: an append-file or get-status request for an identifier that is not in
\* the store is answered 404; an append-file request for a task of the store
\* whose body cannot be decoded is answered 400 (the identifier is looked up
\* before the body is read); such a request changes neither the store, nor any
\* task, nor the gate, and starts no pass; and no step that answers 404 or 400
\* changes any of these.
C13_RefusalsChangeNothing ==
  [][/\ \A h \in Handlers, id \in TaskIds \ Registered :
          /\ \A body \in Bodies :
               AddFileHandler_Lookup(h, id, body) =>
                 response'.code = 404 /\ Refused(h)
          /\ GetTaskStatusHandler(h, id) => response'.code = 404 /\ Refused(h)
     /\ \A h \in Handlers, id \in Registered, body \in Bodies :
          (~body.valid /\ AddFileHandler_Lookup(h, id, body)) =>
            response'.code = 400 /\ Refused(h)
     /\ \A h \in Handlers :
          (handlers[h].pc = "idle" /\ handlers'[h].pc = "addfile") =>
            handlers'[h].id \in Registered /\ handlers'[h].url \in URLs
     /\ (response' # response /\ response'.code \in {400, 404}) =>
          /\ Tasks' = Tasks /\ sema' = sema /\ passes' = passes
          /\ \A h \in Handlers : handlers'[h].pc \in {handlers[h].pc, "idle"}]_vars

\* C13: an undecodable body has just been refused for a task that is one URL
\* short of the maximum: the task is as it was, no slot is taken, no pass
\* exists.
C13_Witness ==
  /\ response.code = 400
  /\ \E t \in Registered :
       /\ Len(Tasks[t].FileURLs) = MaxFilesPerTask - 1
       /\ Tasks[t].Status = StatusCreated
  /\ sema = 0
  /\ passes = <<>>
  /\ \A h \in Handlers : handlers[h].pc = "idle"

\* passes that are in the loop over the URLs of task t
InLoop(t) == {p \in PassesOf(t) : passes[p].pc \in {"filter", "fetching"}}

\* C14: within one task the URLs are handled one at a time and in the order
\* they were appended: at no moment are two URLs of the same task being
\* filtered or fetched, and the URL a pass is at is the one at position i of
\* the task's list, every position before i having been dealt with.
C14_OneURLAtATime ==
  \A t \in Registered :
    /\ Cardinality(InLoop(t)) <= 1
    /\ \A p \in InLoop(t) :
         /\ passes[p].i \in 1..Len(passes[p].urls)
         /\ passes[p].urls = SubSeq(Tasks[t].FileURLs, 1, Len(passes[p].urls))
         /\ Len(passes[p].entries) + Len(passes[p].errors)
              - CopyFailures(passes[p].errors) = passes[p].i - 1

\* C15: every read and every write of a task's fields is made by the holder of
\* that task's mutex: a task changes only while some goroutine holds its
\* mutex, and the request that tests the file count, the pass that reads the
\* URL list and the request that encodes the task for get-status each hold
\* it when they do so.
C15_FieldsAccessedUnderLock ==
  [][/\ \A t \in Registered :
          Tasks'[t] # Tasks[t] => mutex'.t[t] # NoUnit
     /\ \A h \in Handlers :
          (handlers[h].pc \in {"check", "encode"} /\ handlers'[h] # handlers[h])
            => mutex.t[handlers[h].id] = HandlerUnit(h)
     /\ \A p \in PassIds :
          (passes[p].pc = "create" /\ passes'[p].pc \in {"filter", "finish"})
            => mutex.t[TaskOf(p)] = PassUnit(p)]_vars

\* the locks goroutine u holds
Held(u) ==
  (IF mutex.tm = u THEN {"tm"} ELSE {}) \cup {t \in TaskIds : mutex.t[t] = u}

\* C16: no goroutine holds TaskManager.mutex and a Task.mutex together, nor
\* two of either; TaskManager.mutex is held only by a request that has just
\* read or written the map and whose next step is the Unlock, never by a
\* pass, a fetch or a request at the gate; a Task.mutex is held only by the
\* request or the pass that has just written that task and whose next step is
\* the Unlock; so whoever holds a lock can always release it, and no goroutine
\* that waits for a lock is itself holding one.
C16_LocksNeverNest ==
  /\ \A h \in Handlers :
       /\ Cardinality(Held(HandlerUnit(h))) <= 1
       /\ mutex.tm = HandlerUnit(h) <=> handlers[h].pc \in {"inserted", "looked", "status"}
       /\ \A t \in TaskIds :
            mutex.t[t] = HandlerUnit(h)
              <=> (handlers[h].pc = "appended" /\ handlers[h].id = t)
       /\ Held(HandlerUnit(h)) # {} => ENABLED LockHandlerStep(h)
       /\ handlers[h].pc \in {"register", "addfile", "reserve"}
            => Held(HandlerUnit(h)) = {}
  /\ \A p \in 1..MaxLocked :
       /\ mutex.tm # PassUnit(p)
       /\ Cardinality(Held(PassUnit(p))) <= 1
       /\ \A t \in TaskIds :
            mutex.t[t] = PassUnit(p)
              <=> /\ p \in PassIds
                  /\ passes[p].pc \in {"begun", "errored", "ended"}
                  /\ TaskOf(p) = t
       /\ Held(PassUnit(p)) # {} => ENABLED LockPassStep(p)
  /\ mutex.tm \in {NoUnit} \cup {HandlerUnit(h) : h \in Handlers}

\* C16: one request holds TaskManager.mutex for its lookup while a pass holds
\* the mutex of a task in the locked tail of Process and the other request
\* waits for that task's mutex to append.
C16_Witness ==
  \E h, g \in Handlers, p \in PassIds :
    /\ mutex.tm = HandlerUnit(h)
    /\ mutex.t[TaskOf(p)] = PassUnit(p)
    /\ passes[p].pc = "ended"
    /\ handlers[g].pc = "addfile"
    /\ handlers[g].id = TaskOf(p)
    /\ ~ENABLED AddFile_Lock(g)

\* C17: a pass is launched only by a step of an append-file request that has
\* appended its URL and then found the file count of its task at or above
\* MaxFilesPerTask, and it is a pass for that task; a task with fewer files
\* than MaxFilesPerTask has no pass and has status Created; a request that
\* finds the count below the maximum is answered without launching anything;
\* the steps of create-task and get-status leave the passes alone.
C17_FileCountIsOnlyTrigger ==
  /\ [](/\ \A t \in Registered :
             Len(Tasks[t].FileURLs) < MaxFilesPerTask =>
               Tasks[t].Status = StatusCreated /\ PassesOf(t) = {}
        /\ \A h \in Handlers :
             handlers[h].pc \in {"setresult", "reserve"} =>
               Len(Tasks[handlers[h].id].FileURLs) >= MaxFilesPerTask)
  /\ [][/\ Len(passes') # Len(passes) =>
             \E h \in Handlers :
               /\ handlers[h].pc = "reserve"
               /\ handlers'[h].pc = "idle"
               /\ Len(Tasks[handlers[h].id].FileURLs) >= MaxFilesPerTask
               /\ passes' = Append(passes, NewPass(handlers[h].id))
        /\ \A h \in Handlers :
             /\ (handlers[h].pc = "check" /\ handlers'[h] # handlers[h]
                   /\ Len(Tasks[handlers[h].id].FileURLs) < MaxFilesPerTask)
                  => handlers'[h].pc = "idle" /\ passes' = passes
             /\ (handlers[h].pc \in {"idle", "register"}
                   /\ handlers'[h] # handlers[h])
                  => passes' = passes
             /\ (response' # response /\ response'.code \in {200, 201})
                  => passes' = passes]_vars

\* C17: one task has reached the maximum and has a pass; the other holds one
\* URL fewer, has just had its append answered, and is still Created with no
\* pass.
C17_Witness ==
  \E t, o \in Registered :
    /\ PassesOf(t) # {}
    /\ Len(Tasks[t].FileURLs) = MaxFilesPerTask
    /\ Len(Tasks[o].FileURLs) = MaxFilesPerTask - 1
    /\ Tasks[o].Status = StatusCreated
    /\ PassesOf(o) = {}
    /\ response.code = 202
    /\ \A h \in Handlers : handlers[h].pc = "idle"

\* C18: in every reachable state a task's result locator is non-empty only if
\* the task's status is Done, and it is then /archives/{id}.zip; it is empty
\* while the status is Created or Processing and after a failed creation of
\* the archive.
C18_LocatorOnlyWhenDone ==
  \A t \in Registered :
    /\ Tasks[t].ResultURL # <<>> =>
         Tasks[t].Status = StatusDone /\ Tasks[t].ResultURL = ResultLocator(t)
    /\ Tasks[t].Status \in {StatusCreated, StatusProcessing, StatusError} =>
         Tasks[t].ResultURL = <<>>

\* C19: an identifier of the store stays in the store, bound to the task it
\* was bound to: a step changes a registered task either as the append of a
\* request for that task, which adds that request's URL at the end of
\* FileURLs and leaves Status, ResultURL and ErrorDetails as they were, or as
\* a step of a pass of that task, which leaves FileURLs as it was; registering
\* a task and every other step of a request change no registered task.
C19_FrameConditions ==
  [][/\ Registered \subseteq DOMAIN Tasks'
     /\ \A t \in Registered :
          Tasks'[t] # Tasks[t] =>
            \/ \E h \in Handlers :
                 /\ handlers[h].pc = "addfile" /\ handlers[h].id = t
                 /\ handlers'[h] # handlers[h]
                 /\ Tasks'[t] = [Tasks[t] EXCEPT
                                   !.FileURLs = Append(@, handlers[h].url)]
            \/ \E p \in PassIds :
                 /\ TaskOf(p) = t
                 /\ Stepped(p)
                 /\ Tasks'[t].FileURLs = Tasks[t].FileURLs
     /\ \A p \in PassIds :
          Stepped(p) => \A t \in Registered :
                          Tasks'[t].FileURLs = Tasks[t].FileURLs
     /\ \A h \in Handlers :
          (handlers'[h] # handlers[h] /\ handlers[h].pc # "addfile") =>
            \A t \in Registered : Tasks'[t] = Tasks[t]]_vars

\* C19: a request has appended a third URL to a task whose pass, launched on
\* two URLs, is at work: the task is Processing and its list is the pass's
\* two URLs followed by the new one.
C19_Witness ==
  \E h \in Handlers, p \in PassIds :
    LET t == TaskOf(p)
    IN  /\ handlers[h].pc = "check" /\ handlers[h].id = t
        /\ passes[p].pc = "fetching"
        /\ Tasks[t].Status = StatusProcessing
        /\ Len(passes[p].urls) = MaxFilesPerTask
        /\ Tasks[t].FileURLs = Append(passes[p].urls, handlers[h].url)

\* C20: the step that sets Done leaves errorDetails describing the pass that
\* takes it: the messages of that pass and nothing else, so that it is empty
\* exactly when that pass archived every URL it read without a failure; and a
\* task that is Done never shows the message of a failed archive creation.
C20_DetailsDescribeThePass ==
  /\ [](\A t \in Registered :
          Tasks[t].Status = StatusDone => Tasks[t].ErrorDetails # CreateZipFailed)
  /\ [][\A p \in PassIds :
          (passes[p].pc = "finish" /\ Stepped(p)) =>
            LET t == TaskOf(p)
            IN  /\ Tasks'[t].Status = StatusDone
                /\ Tasks'[t].ErrorDetails = Join(passes[p].errors)
                /\ Tasks'[t].ErrorDetails = <<>> <=> passes[p].errors = <<>>]_vars
====
